---- MODULE Spec2Model ----
(***************************************************************************)
(* Client-side access library for the kv store, the graph database and the *)
(* python runner (src/src/kv.rs, src/src/graphdb.rs, src/src/python.rs).   *)
(* Every facade operation builds one request, sends it with                *)
(* send_and_await_response(5), and resolves the awaited message into an    *)
(* anyhow::Result.  The model keeps the last call of the calling process   *)
(* and the process's single blob slot.                                     *)
(***************************************************************************)
EXTENDS Integers, Sequences, FiniteSets, TLC

VARIABLES
    blob,   \* the process's blob slot, read by get_payload() / get_blob()
    last,   \* record of the most recent facade call and of what it returned
    prev,   \* digest of the call made before `last` (kv store runs only)
    kv      \* the remote kv store (kv store runs only)

vars == <<blob, last, prev, kv>>

(***************************************************************************)
(* Bounds and input domains.                                               *)
(***************************************************************************)
MaxTx == 2                       \* transaction ids are 1..MaxTx

TxIds == 1 .. MaxTx
PackageIds == {"app:pkg:pub"}
Dbs == {"db"}
Keys == {<<107>>}                \* b"k"
EchoKeys == {<<107>>, <<106>>}   \* keys a Get response may echo
Values == {<<>>, <<1, 2, 3>>}    \* byte values handed to set
Bytes == {<<1, 2, 3>>, <<91, 93>>, <<91, 123, 125, 93>>}
                                 \* blob bytes: raw, b"[]", b"[{}]"
Reasons == {"r"}                 \* free text carried by an error
Statements == {"SELECT"}
Scripts == {"s.py"}

None == [some |-> FALSE]
Some(x) == [some |-> TRUE, v |-> x]
OptTx == {None} \cup {Some(t) : t \in TxIds}

Ok(x) == [ok |-> TRUE, val |-> x]
Err(e) == [ok |-> FALSE, err |-> e]
Unit == "()"

(***************************************************************************)
(* Error types.  An anyhow::Error keeps the concrete error it was made     *)
(* from: a typed service error, a serde_json error, a SendError, or a bare *)
(* message made with anyhow!.                                              *)
(***************************************************************************)
KvError ==
    {[kind |-> k] : k \in {"NoDb", "DbAlreadyExists", "KeyNotFound", "NoTx"}}
    \cup {[kind |-> k, error |-> r] : k \in {"NoCap", "InputError", "IOError"}, r \in Reasons}
    \cup {[kind |-> "RocksDBError", action |-> a, error |-> r] : a \in {"set"}, r \in Reasons}

GraphDbError ==
    {[kind |-> k] : k \in {"NoDb", "KeyNotFound", "NoTx"}}
    \cup {[kind |-> k, error |-> r] : k \in {"NoCap", "InputError", "IOError"}, r \in Reasons}
    \cup {[kind |-> "SurrealDBError", action |-> a, error |-> r] : a \in {"read"}, r \in Reasons}

PythonError ==
    {[kind |-> k, error |-> r] : k \in {"NoCap", "InputError", "IOError"}, r \in Reasons}

KvResponse ==
    {[tag |-> "Ok"]}
    \cup {[tag |-> "BeginTx", tx_id |-> t] : t \in TxIds}
    \cup {[tag |-> "Get", key |-> k] : k \in EchoKeys}
    \cup {[tag |-> "Err", error |-> e] : e \in KvError}

GraphDbResponse ==
    {[tag |-> "Ok"], [tag |-> "Data"]}
    \cup {[tag |-> "Err", error |-> e] : e \in GraphDbError}

PythonResponse ==
    {[tag |-> "Result", data |-> d] : d \in Values}
    \cup {[tag |-> "Err", error |-> e] : e \in PythonError}

FromKvError(e) == [class |-> "KvError", error |-> e]
FromGraphDbError(e) == [class |-> "GraphDbError", error |-> e]
FromPythonError(e) == [class |-> "PythonError", error |-> e]
FromSerdeJson == [class |-> "serde_json::Error"]
FromSendError(e) == [class |-> "SendError", kind |-> e.kind]
Anyhow(msg) == [class |-> "anyhow", msg |-> msg]

(***************************************************************************)
(* Envelope codec.  A primary body is either the JSON text of a value or   *)
(* bytes that are no JSON at all; from_slice::<T> succeeds exactly on the  *)
(* JSON of a value of T.  Blob bytes are byte sequences.                   *)
(***************************************************************************)
to_vec(v) == [json |-> v]
Garbage == [raw |-> <<1, 2, 3>>]

from_slice(T, bytes) ==
    IF "json" \in DOMAIN bytes /\ bytes.json \in T
    THEN Ok(bytes.json)
    ELSE Err(FromSerdeJson)

\* serde_json::to_vec(&params) for Option<Vec<(String, Value)>>
Params == {None, Some(<<>>), Some(<<[name |-> "a", value |-> 1]>>)}
params_to_vec(params) ==
    IF ~params.some THEN <<110, 117, 108, 108>>                   \* null
    ELSE IF params.v = <<>> THEN <<91, 93>>                       \* []
    ELSE <<91, 91, 34, 97, 34, 44, 49, 93, 93>>                   \* [["a",1]]

\* serde_json::from_slice::<Vec<HashMap<String, Value>>>(&blob.bytes)
records_from_slice(bytes) ==
    IF bytes = <<91, 93>> THEN Ok(<<>>)
    ELSE IF bytes = <<91, 123, 125, 93>> THEN Ok(<< <<>> >>)
    ELSE Err(FromSerdeJson)

(***************************************************************************)
(* Call gateway.  `out` is what the substrate does with the request: it    *)
(* delivers a response (body and optional blob), or the wait ends with a   *)
(* SendError (Timeout, Offline).  A delivered response replaces the blob   *)
(* slot by the blob that came with it, or empties it.                      *)
(***************************************************************************)
WireResponses(bodies, blobs) ==
    {[kind |-> "Response", body |-> b, blob |-> p] : b \in bodies, p \in blobs}
WireFailures == {[kind |-> "Timeout"], [kind |-> "Offline"]}

send_and_await_response(req, out, slot) ==
    IF out.kind = "Response"
    THEN [res |-> Ok([body |-> out.body]), slot |-> out.blob, sends |-> 1]
    ELSE [res |-> Err([kind |-> out.kind]), slot |-> slot, sends |-> 1]

get_payload(slot) == slot
get_blob(slot) == slot

Request(target, body, payload, timeout) ==
    [target |-> target, body |-> body, blob |-> payload, timeout |-> timeout]

\* what a facade call leaves behind: the request it sent, the value it
\* returned, how often it read the blob slot, and the slot afterwards
Call(req, sent, result, reads) ==
    [req |-> req, result |-> result, reads |-> reads,
     sends |-> sent.sends, slot |-> sent.slot]


(***************************************************************************)
(* kv.rs.  Every operation is: build the request, send it and wait, then   *)
(* match on what came back.  X_request is the builder chain, X_match the   *)
(* `match res { ... }` block, X the whole function.                        *)
(***************************************************************************)
KvTarget == <<"our", "kv", "sys", "uqbar">>

KvRequest(package_id, db, action) ==
    [package_id |-> package_id, db |-> db, action |-> action]

kv_unparsable ==
    FromKvError([kind |-> "InputError", error |-> "kv: gave unparsable response"])

\* `package_id` and `value` are free names in the body of new(): the
\* request is built from whatever they are bound to
new_request(package_id, db, value) ==
    Request(KvTarget, to_vec(KvRequest(package_id, db, [tag |-> "New"])),
            Some(value), 5)

new_match(res) ==
    IF res.ok
    THEN LET set_res == from_slice(KvResponse, res.val.body) IN
         IF ~set_res.ok THEN Err(kv_unparsable)
         ELSE IF set_res.val = [tag |-> "Ok"] THEN Ok(Unit)
         ELSE Err(Anyhow("kv: unexpected response"))
    ELSE Err(FromSendError(res.err))

new(package_id, db, value, out, slot) ==
    LET req == new_request(package_id, db, value)
        sent == send_and_await_response(req, out, slot)
    IN Call(req, sent, new_match(sent.res), 0)

get_request(package_id, db, key) ==
    Request(KvTarget, to_vec(KvRequest(package_id, db, [tag |-> "Get", key |-> key])),
            None, 5)

\* get_match with the SendError arm reporting a missing key
get_match_keynotfound(res, slot) ==
    IF res.ok
    THEN LET get_res == from_slice(KvResponse, res.val.body) IN
         IF ~get_res.ok THEN <<Err(kv_unparsable), 0>>
         ELSE IF get_res.val.tag = "Get"
         THEN LET payload == get_payload(slot) IN
              IF payload.some THEN <<Ok(payload.v), 1>>
              ELSE <<Err(Anyhow("kv: no payload")), 1>>
         ELSE <<Err(Anyhow("Unexpected response")), 0>>
    ELSE <<Err(FromKvError([kind |-> "KeyNotFound"])), 0>>

\* returns the result and the number of reads of the blob slot
get_match(res, slot) ==
    IF res.ok
    THEN LET get_res == from_slice(KvResponse, res.val.body) IN
         IF ~get_res.ok THEN <<Err(kv_unparsable), 0>>
         ELSE IF get_res.val.tag = "Get"
         THEN LET payload == get_payload(slot) IN
              IF payload.some THEN <<Ok(payload.v), 1>>
              ELSE <<Err(Anyhow("kv: no payload")), 1>>
         ELSE <<Err(Anyhow("Unexpected response")), 0>>
    ELSE <<Err(FromSendError(res.err)), 0>>

\* get refusing a Get response that echoes another key than the one asked
get_checked(package_id, db, key, out, slot) ==
    LET req == get_request(package_id, db, key)
        sent == send_and_await_response(req, out, slot)
        m == get_match(sent.res, sent.slot)
        get_res == from_slice(KvResponse, sent.res.val.body)
    IN IF sent.res.ok /\ get_res.ok /\ get_res.val.tag = "Get"
          /\ get_res.val.key # key
       THEN Call(req, sent, Err(Anyhow("kv: unexpected key")), 0)
       ELSE Call(req, sent, m[1], m[2])

\* get reading the blob slot as it was before the request was sent
get_stale(package_id, db, key, out, slot) ==
    LET req == get_request(package_id, db, key)
        sent == send_and_await_response(req, out, slot)
        m == get_match(sent.res, slot)
    IN Call(req, sent, m[1], m[2])

get(package_id, db, key, out, slot) ==
    LET req == get_request(package_id, db, key)
        sent == send_and_await_response(req, out, slot)
        m == get_match(sent.res, sent.slot)
    IN Call(req, sent, m[1], m[2])

\* set_request leaving the caller's tx_id out of the action
set_request_no_tx(package_id, db, key, value, tx_id) ==
    Request(KvTarget,
            to_vec(KvRequest(package_id, db, [tag |-> "Set", key |-> key, tx_id |-> None])),
            Some(value), 5)

\* set_request attaching the key instead of the value
set_request_key(package_id, db, key, value, tx_id) ==
    Request(KvTarget,
            to_vec(KvRequest(package_id, db, [tag |-> "Set", key |-> key, tx_id |-> tx_id])),
            Some(key), 5)

set_request(package_id, db, key, value, tx_id) ==
    Request(KvTarget,
            to_vec(KvRequest(package_id, db, [tag |-> "Set", key |-> key, tx_id |-> tx_id])),
            Some(value), 5)

set_match(res) ==
    IF res.ok
    THEN LET set_res == from_slice(KvResponse, res.val.body) IN
         IF ~set_res.ok THEN Err(kv_unparsable)
         ELSE IF set_res.val = [tag |-> "Ok"] THEN Ok(Unit)
         ELSE Err(Anyhow("kv: unexpected response"))
    ELSE Err(FromSendError(res.err))

set(package_id, db, key, value, tx_id, out, slot) ==
    LET req == set_request(package_id, db, key, value, tx_id)
        sent == send_and_await_response(req, out, slot)
    IN Call(req, sent, set_match(sent.res), 0)

delete_request(package_id, db, key, tx_id) ==
    Request(KvTarget,
            to_vec(KvRequest(package_id, db, [tag |-> "Delete", key |-> key, tx_id |-> tx_id])),
            None, 5)

delete_match(res) ==
    IF res.ok
    THEN LET set_res == from_slice(KvResponse, res.val.body) IN
         IF ~set_res.ok THEN Err(kv_unparsable)
         ELSE IF set_res.val = [tag |-> "Ok"] THEN Ok(Unit)
         ELSE Err(Anyhow("kv: unexpected response"))
    ELSE Err(FromSendError(res.err))

\* delete sending the request a second time when the first attempt failed
delete_retry(package_id, db, key, tx_id, out, slot) ==
    LET req == delete_request(package_id, db, key, tx_id)
        sent == send_and_await_response(req, out, slot)
        again == send_and_await_response(req, out, sent.slot)
    IN IF delete_match(sent.res).ok
       THEN Call(req, sent, delete_match(sent.res), 0)
       ELSE [Call(req, again, delete_match(again.res), 0)
                EXCEPT !.sends = sent.sends + again.sends]

delete(package_id, db, key, tx_id, out, slot) ==
    LET req == delete_request(package_id, db, key, tx_id)
        sent == send_and_await_response(req, out, slot)
    IN Call(req, sent, delete_match(sent.res), 0)

\* the `key` parameter of begin_tx is not used
begin_tx_request(package_id, db, key) ==
    Request(KvTarget, to_vec(KvRequest(package_id, db, [tag |-> "BeginTx"])),
            None, 5)

\* begin_tx_match falling back to a default tx id on any other tag
begin_tx_match_default(res) ==
    IF res.ok
    THEN LET get_res == from_slice(KvResponse, res.val.body) IN
         IF ~get_res.ok THEN Err(kv_unparsable)
         ELSE IF get_res.val.tag = "BeginTx" THEN Ok(get_res.val.tx_id)
         ELSE Ok(0)
    ELSE Err(FromSendError(res.err))

begin_tx_match(res) ==
    IF res.ok
    THEN LET get_res == from_slice(KvResponse, res.val.body) IN
         IF ~get_res.ok THEN Err(kv_unparsable)
         ELSE IF get_res.val.tag = "BeginTx" THEN Ok(get_res.val.tx_id)
         ELSE Err(Anyhow("kv: unexpected response"))
    ELSE Err(FromSendError(res.err))

begin_tx(package_id, db, key, out, slot) ==
    LET req == begin_tx_request(package_id, db, key)
        sent == send_and_await_response(req, out, slot)
    IN Call(req, sent, begin_tx_match(sent.res), 0)

commit_tx_request(package_id, db, tx_id) ==
    Request(KvTarget,
            to_vec(KvRequest(package_id, db, [tag |-> "Commit", tx_id |-> tx_id])),
            None, 5)

commit_tx_match(res) ==
    IF res.ok
    THEN LET set_res == from_slice(KvResponse, res.val.body) IN
         IF ~set_res.ok THEN Err(kv_unparsable)
         ELSE IF set_res.val = [tag |-> "Ok"] THEN Ok(Unit)
         ELSE Err(Anyhow("kv: unexpected response"))
    ELSE Err(FromSendError(res.err))

commit_tx(package_id, db, tx_id, out, slot) ==
    LET req == commit_tx_request(package_id, db, tx_id)
        sent == send_and_await_response(req, out, slot)
    IN Call(req, sent, commit_tx_match(sent.res), 0)


(***************************************************************************)
(* graphdb.rs.  self is the GraphDb handle {package_id, db}.               *)
(***************************************************************************)
GraphDbTarget == <<"our", "graphdb", "distro", "sys">>

GraphDbRequest(package_id, db, action) ==
    [package_id |-> package_id, db |-> db, action |-> action]

GraphDb(package_id, db) == [package_id |-> package_id, db |-> db]

Resources == {[tag |-> "Table", name |-> "t"]}

read_request(self, statement) ==
    Request(GraphDbTarget,
            to_vec(GraphDbRequest(self.package_id, self.db,
                                  [tag |-> "Read", statement |-> statement])),
            None, 5)

\* read_match taking the blob before it looks at the response tag
read_match_eager(res, slot) ==
    IF res.ok
    THEN LET response == from_slice(GraphDbResponse, res.val.body)
             b == get_blob(slot)
         IN
         IF ~response.ok THEN <<Err(response.err), 0>>
         ELSE IF response.val.tag = "Data"
         THEN IF ~b.some
              THEN <<Err(FromGraphDbError([kind |-> "InputError",
                                           error |-> "graphdb: no blob"])), 1>>
              ELSE LET values == records_from_slice(b.v) IN
                   IF ~values.ok
                   THEN <<Err(FromGraphDbError([kind |-> "InputError",
                              error |-> "graphdb: gave unparsable response"])), 1>>
                   ELSE <<Ok(values.val), 1>>
         ELSE IF response.val.tag = "Err"
         THEN <<Err(FromGraphDbError(response.val.error)), 1>>
         ELSE <<Err(Anyhow("graphdb: unexpected response")), 1>>
    ELSE <<Err(Anyhow("graphdb: unexpected message")), 0>>

\* returns the result and the number of reads of the blob slot
read_match(res, slot) ==
    IF res.ok
    THEN LET response == from_slice(GraphDbResponse, res.val.body) IN
         IF ~response.ok THEN <<Err(response.err), 0>>
         ELSE IF response.val.tag = "Data"
         THEN LET b == get_blob(slot) IN
              IF ~b.some
              THEN <<Err(FromGraphDbError([kind |-> "InputError",
                                           error |-> "graphdb: no blob"])), 1>>
              ELSE LET values == records_from_slice(b.v) IN
                   IF ~values.ok
                   THEN <<Err(FromGraphDbError([kind |-> "InputError",
                              error |-> "graphdb: gave unparsable response"])), 1>>
                   ELSE <<Ok(values.val), 1>>
         ELSE IF response.val.tag = "Err"
         THEN <<Err(FromGraphDbError(response.val.error)), 0>>
         ELSE <<Err(Anyhow("graphdb: unexpected response")), 0>>
    ELSE <<Err(Anyhow("graphdb: unexpected message")), 0>>

read(self, statement, out, slot) ==
    LET req == read_request(self, statement)
        sent == send_and_await_response(req, out, slot)
        m == read_match(sent.res, sent.slot)
    IN Call(req, sent, m[1], m[2])

statement_request(self, statement, params) ==
    Request(GraphDbTarget,
            to_vec(GraphDbRequest(self.package_id, self.db,
                                  [tag |-> "Statement", statement |-> statement,
                                   params |-> params])),
            Some(params_to_vec(params)), 5)

statement_match(res) ==
    IF res.ok
    THEN LET response == from_slice(GraphDbResponse, res.val.body) IN
         IF ~response.ok THEN Err(response.err)
         ELSE IF response.val.tag = "Ok" THEN Ok(Unit)
         ELSE IF response.val.tag = "Err"
         THEN Err(FromGraphDbError(response.val.error))
         ELSE Err(Anyhow("graphdb: unexpected response"))
    ELSE Err(Anyhow("graphdb: unexpected message"))

statement(self, stmt, params, out, slot) ==
    LET req == statement_request(self, stmt, params)
        sent == send_and_await_response(req, out, slot)
    IN Call(req, sent, statement_match(sent.res), 0)

define_request(self, resource) ==
    Request(GraphDbTarget,
            to_vec(GraphDbRequest(self.package_id, self.db,
                                  [tag |-> "Define", resource |-> resource])),
            None, 5)

define_match(res) ==
    IF res.ok
    THEN LET response == from_slice(GraphDbResponse, res.val.body) IN
         IF ~response.ok THEN Err(response.err)
         ELSE IF response.val.tag = "Ok" THEN Ok(Unit)
         ELSE IF response.val.tag = "Err"
         THEN Err(FromGraphDbError(response.val.error))
         ELSE Err(Anyhow("graphdb: unexpected response"))
    ELSE Err(Anyhow("graphdb: unexpected message"))

define(self, resource, out, slot) ==
    LET req == define_request(self, resource)
        sent == send_and_await_response(req, out, slot)
    IN Call(req, sent, define_match(sent.res), 0)

\* open_request waiting longer than the other operations
open_request_long(package_id, db) ==
    Request(GraphDbTarget,
            to_vec(GraphDbRequest(package_id, db, [tag |-> "Open"])),
            None, 30)

open_request(package_id, db) ==
    Request(GraphDbTarget,
            to_vec(GraphDbRequest(package_id, db, [tag |-> "Open"])),
            None, 5)

open_match(res, package_id, db) ==
    IF res.ok
    THEN LET response == from_slice(GraphDbResponse, res.val.body) IN
         IF ~response.ok THEN Err(response.err)
         ELSE IF response.val.tag = "Ok" THEN Ok(GraphDb(package_id, db))
         ELSE IF response.val.tag = "Err"
         THEN Err(FromGraphDbError(response.val.error))
         ELSE Err(Anyhow("graphdb: unexpected response"))
    ELSE Err(Anyhow("graphdb: unexpected message"))

open(package_id, db, out, slot) ==
    LET req == open_request(package_id, db)
        sent == send_and_await_response(req, out, slot)
    IN Call(req, sent, open_match(sent.res, package_id, db), 0)

remove_db_request(package_id, db) ==
    Request(GraphDbTarget,
            to_vec(GraphDbRequest(package_id, db, [tag |-> "RemoveDb"])),
            None, 5)

remove_db_match(res) ==
    IF res.ok
    THEN LET response == from_slice(GraphDbResponse, res.val.body) IN
         IF ~response.ok THEN Err(response.err)
         ELSE IF response.val.tag = "Ok" THEN Ok(Unit)
         ELSE IF response.val.tag = "Err"
         THEN Err(FromGraphDbError(response.val.error))
         ELSE Err(Anyhow("graphdb: unexpected response"))
    ELSE Err(Anyhow("graphdb: unexpected message"))

remove_db(package_id, db, out, slot) ==
    LET req == remove_db_request(package_id, db)
        sent == send_and_await_response(req, out, slot)
    IN Call(req, sent, remove_db_match(sent.res), 0)

(***************************************************************************)
(* python.rs.  self is the Python handle {package_id}.                     *)
(***************************************************************************)
PythonTarget == <<"our", "python", "distro", "sys">>

PythonRequest(package_id, action) ==
    [package_id |-> package_id, action |-> action]

Python(package_id) == [package_id |-> package_id]

Args == {<<>>, <<"x">>}

run_script_request(self, script, func, args) ==
    Request(PythonTarget,
            to_vec(PythonRequest(self.package_id,
                                 [tag |-> "RunScript", script |-> script,
                                  func |-> func, args |-> args])),
            None, 5)

run_script_match(res) ==
    IF res.ok
    THEN LET response == from_slice(PythonResponse, res.val.body) IN
         IF ~response.ok THEN Err(response.err)
         ELSE IF response.val.tag = "Result" THEN Ok(response.val.data)
         ELSE Err(FromPythonError(response.val.error))
    ELSE Err(Anyhow("python: unexpected message"))

run_script(self, script, func, args, out, slot) ==
    LET req == run_script_request(self, script, func, args)
        sent == send_and_await_response(req, out, slot)
    IN Call(req, sent, run_script_match(sent.res), 0)


(***************************************************************************)
(* The calling process.  One action per facade operation; the substrate    *)
(* may answer a request with any response body and any blob, or not at     *)
(* all.                                                                    *)
(***************************************************************************)
Blobs == {None} \cup {Some(b) : b \in Bytes}

Bodies ==
    {to_vec(r) : r \in KvResponse \cup GraphDbResponse \cup PythonResponse}
    \cup {Garbage}

Outcomes == WireResponses(Bodies, Blobs) \cup WireFailures

Done(op, svc, args, out, c, slot) ==
    [op |-> op, svc |-> svc, args |-> args, out |-> out, req |-> c.req,
     result |-> c.result, reads |-> c.reads, sends |-> c.sends,
     slot_before |-> slot]

NoCall == [op |-> "none"]

KvStore0 == [exists |-> FALSE,
             data |-> [k \in Keys |-> None],
             next_tx |-> 1,
             open |-> {},
             committed |-> {},
             pending |-> [t \in TxIds |-> [k \in Keys |-> [op |-> "none"]]]]

Init ==
    /\ blob = None
    /\ last = NoCall
    /\ prev = NoCall
    /\ kv = KvStore0

Returns(op, svc, args, out, c) ==
    /\ last' = Done(op, svc, args, out, c, blob)
    /\ blob' = c.slot
    /\ UNCHANGED <<prev, kv>>

KvNew ==
    \E package_id \in PackageIds, db \in Dbs, value \in Values, out \in Outcomes :
        Returns("new", "kv", [package_id |-> package_id, db |-> db, value |-> value],
                out, new(package_id, db, value, out, blob))

KvGet ==
    \E package_id \in PackageIds, db \in Dbs, key \in Keys, out \in Outcomes :
        Returns("get", "kv", [package_id |-> package_id, db |-> db, key |-> key],
                out, get(package_id, db, key, out, blob))

KvSet ==
    \E package_id \in PackageIds, db \in Dbs, key \in Keys, value \in Values,
       tx_id \in OptTx, out \in Outcomes :
        Returns("set", "kv",
                [package_id |-> package_id, db |-> db, key |-> key,
                 value |-> value, tx_id |-> tx_id],
                out, set(package_id, db, key, value, tx_id, out, blob))

KvDelete ==
    \E package_id \in PackageIds, db \in Dbs, key \in Keys, tx_id \in OptTx,
       out \in Outcomes :
        Returns("delete", "kv",
                [package_id |-> package_id, db |-> db, key |-> key, tx_id |-> tx_id],
                out, delete(package_id, db, key, tx_id, out, blob))

KvBeginTx ==
    \E package_id \in PackageIds, db \in Dbs, key \in Keys, out \in Outcomes :
        Returns("begin_tx", "kv", [package_id |-> package_id, db |-> db, key |-> key],
                out, begin_tx(package_id, db, key, out, blob))

KvCommitTx ==
    \E package_id \in PackageIds, db \in Dbs, tx_id \in TxIds, out \in Outcomes :
        Returns("commit_tx", "kv", [package_id |-> package_id, db |-> db, tx_id |-> tx_id],
                out, commit_tx(package_id, db, tx_id, out, blob))

GraphDbOpen ==
    \E package_id \in PackageIds, db \in Dbs, out \in Outcomes :
        Returns("open", "graphdb", [package_id |-> package_id, db |-> db],
                out, open(package_id, db, out, blob))

GraphDbRemoveDb ==
    \E package_id \in PackageIds, db \in Dbs, out \in Outcomes :
        Returns("remove_db", "graphdb", [package_id |-> package_id, db |-> db],
                out, remove_db(package_id, db, out, blob))

GraphDbDefine ==
    \E package_id \in PackageIds, db \in Dbs, resource \in Resources, out \in Outcomes :
        Returns("define", "graphdb",
                [package_id |-> package_id, db |-> db, resource |-> resource],
                out, define(GraphDb(package_id, db), resource, out, blob))

GraphDbStatement ==
    \E package_id \in PackageIds, db \in Dbs, stmt \in Statements, params \in Params,
       out \in Outcomes :
        Returns("statement", "graphdb",
                [package_id |-> package_id, db |-> db, statement |-> stmt,
                 params |-> params],
                out, statement(GraphDb(package_id, db), stmt, params, out, blob))

GraphDbRead ==
    \E package_id \in PackageIds, db \in Dbs, stmt \in Statements, out \in Outcomes :
        Returns("read", "graphdb",
                [package_id |-> package_id, db |-> db, statement |-> stmt],
                out, read(GraphDb(package_id, db), stmt, out, blob))

PythonRunScript ==
    \E package_id \in PackageIds, script \in Scripts, args \in Args, out \in Outcomes :
        Returns("run_script", "python",
                [package_id |-> package_id, script |-> script, func |-> "main",
                 args |-> args],
                out, run_script(Python(package_id), script, "main", args, out, blob))

Next ==
    \/ KvNew \/ KvGet \/ KvSet \/ KvDelete \/ KvBeginTx \/ KvCommitTx
    \/ GraphDbOpen \/ GraphDbRemoveDb \/ GraphDbDefine \/ GraphDbStatement
    \/ GraphDbRead
    \/ PythonRunScript

Spec == Init /\ [][Next]_vars


(***************************************************************************)
(* The kv store behind the gateway: New creates the db, Set and Delete     *)
(* without a tx_id apply at once, with a tx_id they are held by that open  *)
(* transaction until Commit, and a tx_id is no longer valid once it is     *)
(* committed.  The value of a Set arrives in the request blob, the value   *)
(* of a Get leaves in the response blob.                                   *)
(***************************************************************************)
Untouched == [op |-> "none"]

Reply(store, response, payload) ==
    [store |-> store,
     out |-> [kind |-> "Response", body |-> to_vec(response), blob |-> payload]]

KvFail(store, kind) == Reply(store, [tag |-> "Err", error |-> [kind |-> kind]], None)

KvWrite(store, key, tx_id, write) ==
    IF ~tx_id.some
    THEN Reply([store EXCEPT !.data[key] =
                    IF write.op = "set" THEN Some(write.value) ELSE None],
               [tag |-> "Ok"], None)
    ELSE IF tx_id.v \notin store.open THEN KvFail(store, "NoTx")
    ELSE Reply([store EXCEPT !.pending[tx_id.v][key] = write], [tag |-> "Ok"], None)

KvApply(data, writes) ==
    [k \in Keys |-> IF writes[k].op = "set" THEN Some(writes[k].value)
                    ELSE IF writes[k].op = "delete" THEN None
                    ELSE data[k]]

KvServe(store, req) ==
    LET action == req.body.json.action IN
    IF action.tag = "New"
    THEN IF store.exists THEN KvFail(store, "DbAlreadyExists")
         ELSE Reply([store EXCEPT !.exists = TRUE], [tag |-> "Ok"], None)
    ELSE IF ~store.exists THEN KvFail(store, "NoDb")
    ELSE IF action.tag = "Get"
    THEN IF store.data[action.key].some
         THEN Reply(store, [tag |-> "Get", key |-> action.key], store.data[action.key])
         ELSE KvFail(store, "KeyNotFound")
    ELSE IF action.tag = "Set"
    THEN IF ~req.blob.some
         THEN Reply(store, [tag |-> "Err",
                            error |-> [kind |-> "InputError", error |-> "r"]], None)
         ELSE KvWrite(store, action.key, action.tx_id,
                      [op |-> "set", value |-> req.blob.v])
    ELSE IF action.tag = "Delete"
    THEN KvWrite(store, action.key, action.tx_id, [op |-> "delete"])
    ELSE IF action.tag = "BeginTx"
    THEN Reply([store EXCEPT !.open = @ \cup {store.next_tx},
                             !.next_tx = @ + 1],
               [tag |-> "BeginTx", tx_id |-> store.next_tx], None)
    ELSE \* Commit
         IF action.tx_id \notin store.open THEN KvFail(store, "NoTx")
         ELSE Reply([store EXCEPT !.data = KvApply(store.data, store.pending[action.tx_id]),
                                  !.open = @ \ {action.tx_id},
                                  !.committed = @ \cup {action.tx_id},
                                  !.pending[action.tx_id] = [k \in Keys |-> Untouched]],
                    [tag |-> "Ok"], None)

\* what the next call may need to know of this one
Digest(call) ==
    IF call.op = "set"
    THEN [op |-> "set", args |-> call.args, ok |-> call.result.ok]
    ELSE [op |-> "other"]

\* the request is answered by the store, or the wait times out unserved
StoreOut(req, answered) ==
    IF answered THEN KvServe(kv, req).out ELSE [kind |-> "Timeout"]

Served(op, args, req, answered, c) ==
    /\ last' = Done(op, "kv", args, StoreOut(req, answered), c, blob)
    /\ blob' = c.slot
    /\ prev' = Digest(last)
    /\ kv' = IF answered THEN KvServe(kv, req).store ELSE kv

StoreNew ==
    \E package_id \in PackageIds, db \in Dbs, value \in Values, answered \in BOOLEAN :
        LET req == new_request(package_id, db, value) IN
        Served("new", [package_id |-> package_id, db |-> db, value |-> value],
               req, answered,
               new(package_id, db, value, StoreOut(req, answered), blob))

StoreGet ==
    \E package_id \in PackageIds, db \in Dbs, key \in Keys, answered \in BOOLEAN :
        LET req == get_request(package_id, db, key) IN
        Served("get", [package_id |-> package_id, db |-> db, key |-> key],
               req, answered,
               get(package_id, db, key, StoreOut(req, answered), blob))

StoreSet ==
    \E package_id \in PackageIds, db \in Dbs, key \in Keys, value \in Values,
       tx_id \in OptTx, answered \in BOOLEAN :
        LET req == set_request(package_id, db, key, value, tx_id) IN
        Served("set", [package_id |-> package_id, db |-> db, key |-> key,
                       value |-> value, tx_id |-> tx_id],
               req, answered,
               set(package_id, db, key, value, tx_id, StoreOut(req, answered), blob))

StoreDelete ==
    \E package_id \in PackageIds, db \in Dbs, key \in Keys, tx_id \in OptTx,
       answered \in BOOLEAN :
        LET req == delete_request(package_id, db, key, tx_id) IN
        Served("delete", [package_id |-> package_id, db |-> db, key |-> key,
                          tx_id |-> tx_id],
               req, answered,
               delete(package_id, db, key, tx_id, StoreOut(req, answered), blob))

StoreBeginTx ==
    \E package_id \in PackageIds, db \in Dbs, key \in Keys, answered \in BOOLEAN :
        /\ kv.next_tx <= MaxTx
        /\ LET req == begin_tx_request(package_id, db, key) IN
           Served("begin_tx", [package_id |-> package_id, db |-> db, key |-> key],
                  req, answered,
                  begin_tx(package_id, db, key, StoreOut(req, answered), blob))

StoreCommitTx ==
    \E package_id \in PackageIds, db \in Dbs, tx_id \in TxIds, answered \in BOOLEAN :
        LET req == commit_tx_request(package_id, db, tx_id) IN
        Served("commit_tx", [package_id |-> package_id, db |-> db, tx_id |-> tx_id],
               req, answered,
               commit_tx(package_id, db, tx_id, StoreOut(req, answered), blob))

NextKv ==
    \/ StoreNew \/ StoreGet \/ StoreSet \/ StoreDelete
    \/ StoreBeginTx \/ StoreCommitTx

SpecKv == Init /\ [][NextKv]_vars


(***************************************************************************)
(* Properties of the resolver, for any behaviour of the substrate (Spec).  *)
(***************************************************************************)
Answered == last.op # "none" /\ last.out.kind = "Response"

ResponseType(svc) ==
    IF svc = "kv" THEN KvResponse
    ELSE IF svc = "graphdb" THEN GraphDbResponse
    ELSE PythonResponse

ServiceError(svc, e) ==
    IF svc = "kv" THEN FromKvError(e)
    ELSE IF svc = "graphdb" THEN FromGraphDbError(e)
    ELSE FromPythonError(e)

BusinessClasses == {"KvError", "GraphDbError", "PythonError"}

\* the response of the last call as its own service's response type reads it
Decoded == from_slice(ResponseType(last.svc), last.out.body)

Expected(op) ==
    IF op = "begin_tx" THEN "BeginTx"
    ELSE IF op = "get" THEN "Get"
    ELSE IF op = "read" THEN "Data"
    ELSE IF op = "run_script" THEN "Result"
    ELSE "Ok"

\* C1: whenever the service answers Err{error}, the operation returns that
\* same error variant, fields unchanged, as the service's typed error; it
\* is never replaced by a generic failure.
C1_RemoteErrorReturnedTyped ==
    (Answered /\ Decoded.ok /\ Decoded.val.tag = "Err")
        => last.result = Err(ServiceError(last.svc, Decoded.val.error))

\* C2: a decoded response whose tag is not the one the call site expects
\* makes the operation return an error, never a success value.
C2_MismatchedTagIsError ==
    (Answered /\ Decoded.ok /\ Decoded.val.tag # Expected(last.op))
        => ~last.result.ok

C2_Witness ==
    /\ Answered /\ last.op = "begin_tx"
    /\ Decoded.ok /\ Decoded.val.tag = "Get"
    /\ ~last.result.ok

\* C3: kv get on Get and graphdb read on Data read the blob slot before
\* returning, and when the slot is empty they fail with the service's
\* InputError variant.
C3_MissingBlobIsInputError ==
    (/\ Answered /\ last.op \in {"get", "read"}
     /\ Decoded.ok /\ Decoded.val.tag = Expected(last.op))
        => /\ last.reads = 1
           /\ ~last.out.blob.some =>
                /\ ~last.result.ok
                /\ last.result.err.class \in BusinessClasses
                /\ last.result.err = ServiceError(last.svc, last.result.err.error)
                /\ last.result.err.error.kind = "InputError"

\* C4: when the wait ends by timeout or the send fails, the operation
\* returns an error that is none of the service's business errors.
C4_TimeoutIsNotBusinessError ==
    (last.op # "none" /\ last.out.kind \in {"Timeout", "Offline"})
        => /\ ~last.result.ok
           /\ last.result.err.class \notin BusinessClasses

C4_Witness ==
    /\ last.op = "get" /\ last.out.kind = "Timeout"
    /\ last.result = Err(FromSendError([kind |-> "Timeout"]))

\* C5: the bytes a successful kv get or graphdb read returns are the blob
\* that arrived with that call's own response, never the blob an earlier
\* call left in the slot.
C5_ResultIsOwnBlob ==
    (last.op \in {"get", "read"} /\ last.result.ok)
        => /\ Answered
           /\ last.out.blob.some
           /\ last.op = "get" => last.result.val = last.out.blob.v
           /\ last.op = "read" =>
                last.result.val = records_from_slice(last.out.blob.v).val

C5_Witness ==
    /\ last.op = "get" /\ last.result.ok
    /\ last.slot_before = Some(<<1, 2, 3>>)
    /\ last.out.blob = Some(<<91, 93>>)
    /\ last.result.val = <<91, 93>>

\* C6: a response body that does not parse into the service's response
\* type produces an error distinguishable from every business error, in
\* particular it is not the service's InputError.
C6_UnparsableIsNotBusinessError ==
    (Answered /\ ~Decoded.ok)
        => /\ ~last.result.ok
           /\ last.result.err.class \notin BusinessClasses

\* C9: a value being stored, a list of bound parameters, a record set and
\* a script's output travel in the blob and not in the primary body; every
\* other request attaches no blob.
C9_BlobPlacement ==
    last.op # "none" =>
        LET action == last.req.body.json.action IN
        /\ last.op = "set" =>
             /\ last.req.blob = Some(last.args.value)
             /\ "value" \notin DOMAIN action
        /\ last.op = "statement" =>
             /\ last.req.blob = Some(params_to_vec(last.args.params))
             /\ "params" \notin DOMAIN action
        /\ (last.op = "read" /\ last.result.ok) =>
             /\ last.out.blob.some
             /\ last.result.val = records_from_slice(last.out.blob.v).val
             /\ DOMAIN last.out.body.json = {"tag"}
        /\ (last.op = "run_script" /\ last.result.ok) =>
             /\ last.out.blob.some
             /\ last.result.val = last.out.blob.v
             /\ "data" \notin DOMAIN last.out.body.json
        /\ last.op \notin {"set", "statement"} => ~last.req.blob.some

(***************************************************************************)
(* Properties of the kv operations against the kv store (SpecKv).          *)
(***************************************************************************)
\* C7: kv get for a key the store does not hold returns KeyNotFound.
C7_MissingKeyIsKeyNotFound ==
    (/\ last.op = "get" /\ Answered
     /\ kv.exists /\ ~kv.data[last.args.key].some)
        => last.result = Err(FromKvError([kind |-> "KeyNotFound"]))

\* One step of C8: begin_tx returns a tx id t; set and commit_tx with the open t
\* succeed; a set with t after its commit fails, and the caller receives
\* NoTx.
C8_Step ==
    /\ (last'.op = "begin_tx" /\ last'.out.kind = "Response" /\ kv.exists)
         => /\ last'.result.ok
            /\ last'.result.val \in kv'.open \ kv.open
    /\ \A t \in kv.open :
         /\ (last'.op = "set" /\ last'.out.kind = "Response"
             /\ last'.args.tx_id = Some(t))
              => last'.result = Ok(Unit)
         /\ (last'.op = "commit_tx" /\ last'.out.kind = "Response"
             /\ last'.args.tx_id = t)
              => last'.result = Ok(Unit) /\ t \in kv'.committed
    /\ \A t \in kv.committed :
         (last'.op = "set" /\ last'.out.kind = "Response"
          /\ last'.args.tx_id = Some(t))
              => last'.result = Err(FromKvError([kind |-> "NoTx"]))

\* C8 as a property of every step: the transaction sequencing of C8_Step
\* holds of each kv call against the store.
C8_TxSequencing == [][C8_Step]_vars

\* C10: a successful set(k, v, None) followed immediately by an answered
\* get(k) on the same package and db returns exactly v, which travelled
\* unchanged through the request blob and the response blob.
C10_AutoCommitVisible ==
    (/\ prev.op = "set" /\ prev.ok /\ ~prev.args.tx_id.some
     /\ last.op = "get" /\ Answered
     /\ last.args.package_id = prev.args.package_id
     /\ last.args.db = prev.args.db
     /\ last.args.key = prev.args.key)
        => /\ last.out.blob = Some(prev.args.value)
           /\ last.result = Ok(prev.args.value)

C10_Witness ==
    /\ prev.op = "set" /\ prev.ok /\ ~prev.args.tx_id.some
    /\ prev.args.value = <<1, 2, 3>>
    /\ last.op = "get" /\ Answered /\ last.args.key = prev.args.key
    /\ last.result = Ok(<<1, 2, 3>>)

(***************************************************************************)
(* The envelope codec on requests.  The request types derive Serialize and *)
(* Deserialize with serde's default representation: a struct is an object  *)
(* of its fields in declaration order, a unit variant is its name as a     *)
(* string, a struct variant is {"Name": {fields}}, None is null, Vec<u8>   *)
(* is an array of numbers.  JSON text is a sequence of tokens.  Decoding   *)
(* the text of a request as type T gives the value of T that has this      *)
(* text, and fails when T has none.                                        *)
(***************************************************************************)
RECURSIVE json_join(_)
json_join(items) ==
    IF Len(items) = 0 THEN <<>>
    ELSE IF Len(items) = 1 THEN items[1]
    ELSE items[1] \o <<",">> \o json_join(Tail(items))

json_array(items) == <<"[">> \o json_join(items) \o <<"]">>
json_object(fields) == <<"{">> \o json_join(fields) \o <<"}">>
json_string(s) == <<"\"", s, "\"">>
json_number(n) == <<ToString(n)>>
json_null == <<"null">>
json_field(name, value) == json_string(name) \o <<":">> \o value
json_variant(name, fields) == json_object(<<json_field(name, json_object(fields))>>)

json_bytes(b) == json_array([i \in 1 .. Len(b) |-> json_number(b[i])])
json_strings(ss) == json_array([i \in 1 .. Len(ss) |-> json_string(ss[i])])
json_option_u64(o) == IF o.some THEN json_number(o.v) ELSE json_null

\* Option<Vec<(String, serde_json::Value)>>: a tuple is a two-element array
json_params(params) ==
    IF ~params.some THEN json_null
    ELSE json_array([i \in 1 .. Len(params.v) |->
            json_array(<<json_string(params.v[i].name),
                         json_number(params.v[i].value)>>)])

PackageId_to_json(package_id) == json_string(package_id)

KvAction ==
    {[tag |-> t] : t \in {"New", "BeginTx", "Backup"}}
    \cup {[tag |-> t, key |-> k, tx_id |-> o] : t \in {"Set", "Delete"}, k \in Keys, o \in OptTx}
    \cup {[tag |-> "Get", key |-> k] : k \in Keys}
    \cup {[tag |-> "Commit", tx_id |-> t] : t \in TxIds}

\* KvAction with #[serde(untagged)]: the variant name is not written
KvAction_to_json_untagged(action) ==
    IF action.tag \in {"New", "BeginTx", "Backup"} THEN json_null
    ELSE IF action.tag \in {"Set", "Delete"}
    THEN json_object(<<json_field("key", json_bytes(action.key)),
                       json_field("tx_id", json_option_u64(action.tx_id))>>)
    ELSE IF action.tag = "Get"
    THEN json_object(<<json_field("key", json_bytes(action.key))>>)
    ELSE json_object(<<json_field("tx_id", json_number(action.tx_id))>>)

KvAction_to_json(action) ==
    IF action.tag \in {"New", "BeginTx", "Backup"} THEN json_string(action.tag)
    ELSE IF action.tag \in {"Set", "Delete"}
    THEN json_variant(action.tag,
                      <<json_field("key", json_bytes(action.key)),
                        json_field("tx_id", json_option_u64(action.tx_id))>>)
    ELSE IF action.tag = "Get"
    THEN json_variant("Get", <<json_field("key", json_bytes(action.key))>>)
    ELSE json_variant("Commit", <<json_field("tx_id", json_number(action.tx_id))>>)

KvRequest_to_json(request) ==
    json_object(<<json_field("package_id", PackageId_to_json(request.package_id)),
                  json_field("db", json_string(request.db)),
                  json_field("action", KvAction_to_json(request.action))>>)

KvRequests ==
    {KvRequest(p, d, a) : p \in PackageIds, d \in Dbs, a \in KvAction}

KvRequest_from_json(text) ==
    LET matching == {r \in KvRequests : KvRequest_to_json(r) = text} IN
    IF matching = {} THEN Err(FromSerdeJson) ELSE Ok(CHOOSE r \in matching : TRUE)

DefineResourceType ==
    {[tag |-> t, name |-> "t"] : t \in {"Namespace", "Database", "Table"}}

DefineResourceType_to_json(resource) ==
    json_variant(resource.tag, <<json_field("name", json_string(resource.name))>>)

GraphDbAction ==
    {[tag |-> t] : t \in {"Open", "RemoveDb", "Backup"}}
    \cup {[tag |-> "Define", resource |-> r] : r \in DefineResourceType}
    \cup {[tag |-> "Statement", statement |-> s, params |-> p] :
            s \in Statements, p \in Params}
    \cup {[tag |-> "Read", statement |-> s] : s \in Statements}

GraphDbAction_to_json(action) ==
    IF action.tag \in {"Open", "RemoveDb", "Backup"} THEN json_string(action.tag)
    ELSE IF action.tag = "Define"
    THEN json_variant("Define",
            <<json_field("resource", DefineResourceType_to_json(action.resource))>>)
    ELSE IF action.tag = "Statement"
    THEN json_variant("Statement",
            <<json_field("statement", json_string(action.statement)),
              json_field("params", json_params(action.params))>>)
    ELSE json_variant("Read", <<json_field("statement", json_string(action.statement))>>)

GraphDbRequest_to_json(request) ==
    json_object(<<json_field("package_id", PackageId_to_json(request.package_id)),
                  json_field("db", json_string(request.db)),
                  json_field("action", GraphDbAction_to_json(request.action))>>)

GraphDbRequests ==
    {GraphDbRequest(p, d, a) : p \in PackageIds, d \in Dbs, a \in GraphDbAction}

GraphDbRequest_from_json(text) ==
    LET matching == {r \in GraphDbRequests : GraphDbRequest_to_json(r) = text} IN
    IF matching = {} THEN Err(FromSerdeJson) ELSE Ok(CHOOSE r \in matching : TRUE)

PythonAction ==
    {[tag |-> "RunScript", script |-> s, func |-> f, args |-> a] :
        s \in Scripts, f \in {"main"}, a \in Args}

PythonAction_to_json(action) ==
    json_variant("RunScript",
        <<json_field("script", json_string(action.script)),
          json_field("func", json_string(action.func)),
          json_field("args", json_strings(action.args))>>)

PythonRequest_to_json(request) ==
    json_object(<<json_field("package_id", PackageId_to_json(request.package_id)),
                  json_field("action", PythonAction_to_json(request.action))>>)

PythonRequests ==
    {PythonRequest(p, a) : p \in PackageIds, a \in PythonAction}

PythonRequest_from_json(text) ==
    LET matching == {r \in PythonRequests : PythonRequest_to_json(r) = text} IN
    IF matching = {} THEN Err(FromSerdeJson) ELSE Ok(CHOOSE r \in matching : TRUE)

request_to_json(svc, request) ==
    IF svc = "kv" THEN KvRequest_to_json(request)
    ELSE IF svc = "graphdb" THEN GraphDbRequest_to_json(request)
    ELSE PythonRequest_to_json(request)

request_from_json(svc, text) ==
    IF svc = "kv" THEN KvRequest_from_json(text)
    ELSE IF svc = "graphdb" THEN GraphDbRequest_from_json(text)
    ELSE PythonRequest_from_json(text)

(***************************************************************************)
(* Codec runs: a request of any action of any service, with or without a   *)
(* blob at its side, is encoded and the text is decoded again.             *)
(***************************************************************************)
Envelopes ==
    {[op |-> "codec", stage |-> "request", svc |-> "kv", request |-> r, attached |-> b] :
        r \in KvRequests, b \in Blobs}
    \cup {[op |-> "codec", stage |-> "request", svc |-> "graphdb", request |-> r, attached |-> b] :
        r \in GraphDbRequests, b \in Blobs}
    \cup {[op |-> "codec", stage |-> "request", svc |-> "python", request |-> r, attached |-> b] :
        r \in PythonRequests, b \in Blobs}

InitCodec ==
    /\ blob = None
    /\ last \in Envelopes
    /\ prev = NoCall
    /\ kv = KvStore0

Encode ==
    /\ last.stage = "request"
    /\ last' = [op |-> "codec", stage |-> "encoded", svc |-> last.svc,
                request |-> last.request, attached |-> last.attached,
                text |-> request_to_json(last.svc, last.request)]
    /\ UNCHANGED <<blob, prev, kv>>

Decode ==
    /\ last.stage = "encoded"
    /\ last' = [op |-> "codec", stage |-> "decoded", svc |-> last.svc,
                request |-> last.request, attached |-> last.attached,
                text |-> last.text,
                decoded |-> request_from_json(last.svc, last.text)]
    /\ UNCHANGED <<blob, prev, kv>>

NextCodec == Encode \/ Decode

SpecCodec == InitCodec /\ [][NextCodec]_vars

\* C11: decoding the encoded primary body of any request of any supported
\* action gives back the original request, with or without a blob.
C11_CodecRoundTrip ==
    (last.op = "codec" /\ last.stage = "decoded")
        => last.decoded = Ok(last.request)

C11_Witness ==
    /\ last.op = "codec" /\ last.stage = "decoded"
    /\ last.svc = "kv" /\ last.request.action.tag = "Delete"
    /\ last.request.action.tx_id = None
    /\ last.attached.some
    /\ last.decoded = Ok(last.request)

(***************************************************************************)
(* Behaviour of the facade calls themselves (Spec).                        *)
(***************************************************************************)
\* C12: one invocation of any facade operation sends exactly one request
\* and awaits at most one response, whatever the outcome; after an error
\* no second request is sent.
C12_OneRequestPerCall ==
    last.op # "none" => last.sends = 1

C12_Witness ==
    /\ Answered /\ last.op = "delete"
    /\ Decoded.ok /\ Decoded.val.tag = "Err"
    /\ ~last.result.ok
    /\ last.sends = 1

\* C13, one step: set, delete and commit_tx put into the request exactly
\* the tx_id the caller passed, begin_tx returns exactly the tx_id of the
\* BeginTx response, and a call repeated with the same arguments and the
\* same answer sends the same request and returns the same result,
\* whatever the calls before it left behind.
C13_Step ==
    /\ last'.op \in {"set", "delete", "commit_tx"}
         => last'.req.body.json.action.tx_id = last'.args.tx_id
    /\ (/\ last'.op = "begin_tx" /\ last'.out.kind = "Response"
        /\ from_slice(KvResponse, last'.out.body).ok
        /\ from_slice(KvResponse, last'.out.body).val.tag = "BeginTx")
         => last'.result = Ok(last'.out.body.json.tx_id)
    /\ (/\ last'.op = last.op
        /\ last'.args = last.args
        /\ last'.out = last.out)
         => /\ last'.req = last.req
            /\ last'.result = last.result

\* C13: the client keeps no transaction state; C13_Step holds of every
\* facade call.
C13_NoClientTxState == [][C13_Step]_vars

C13_Witness ==
    /\ Answered /\ last.op = "set"
    /\ last.args.tx_id = Some(2)
    /\ last.req.body.json.action.tx_id = Some(2)
    /\ last.slot_before.some
    /\ last.result = Ok(Unit)

\* C14: every facade operation of the three services waits for its
\* response with the same fixed timeout of 5.
C14_FixedTimeout ==
    last.op # "none" => last.req.timeout = 5

C14_Witness ==
    /\ last.op = "run_script"
    /\ last.out.kind = "Timeout"
    /\ last.req.timeout = 5

\* C15: the blob slot is read once by kv get after a response decoded as
\* Get and by graphdb read after a response decoded as Data, and by no
\* other operation and on no other response.
C15_BlobReadOnlyWhenSignalled ==
    last.op # "none" =>
        last.reads =
            IF /\ last.op \in {"get", "read"}
               /\ Answered /\ Decoded.ok
               /\ Decoded.val.tag = Expected(last.op)
            THEN 1 ELSE 0

C15_Witness ==
    /\ Answered /\ last.op = "read"
    /\ Decoded.ok /\ Decoded.val.tag = "Err"
    /\ last.out.blob.some
    /\ last.reads = 0

\* C16: kv get(k) returns the attached blob bytes as the value of k for
\* any key echoed in the Get response, equal to k or not.
C16_EchoedKeyNotCompared ==
    (/\ Answered /\ last.op = "get"
     /\ Decoded.ok /\ Decoded.val.tag = "Get"
     /\ blob.some)
        => last.result = Ok(blob.v)

C16_Witness ==
    /\ Answered /\ last.op = "get"
    /\ Decoded.ok /\ Decoded.val.tag = "Get"
    /\ Decoded.val.key # last.args.key
    /\ blob = Some(<<1, 2, 3>>)
    /\ last.result = Ok(<<1, 2, 3>>)

====
